---- MODULE Spec2Model ----
(***************************************************************************)
(* aspmctl: locate the PCI Express Link Control register in a raw copy of  *)
(* a device's configuration space and patch its two ASPM bits.             *)
(*                                                                         *)
(* A byte buffer is a sequence of bytes; the byte at offset o is buf[o+1]. *)
(* One run of main is the chain parse_args -> open -> read_to_end ->       *)
(* find_pci_exp_link_control (find_pci_capability) -> patch.  The          *)
(* environment may invoke the program again on the same file.              *)
(***************************************************************************)
EXTENDS Integers, Sequences, FiniteSets, TLC

\* ---------------------------------------------------------------- constants
PCI_CAPABILITY_LIST == 52       \* 0x34
PCI_CAP_ID_EXP == 16            \* 0x10
PCI_CAP_ID_EXP_LEN == 60        \* 0x3c
PCI_EXP_LNKCTL == 16            \* 0x10
PCI_EXP_LNKCTL_ASPM_L0S == 1
PCI_EXP_LNKCTL_ASPM_L1 == 2

\* ------------------------------------------------------------------- bounds
MaxArgs == 3     \* longest command line (arguments after the program name)
MaxRuns == 2     \* invocations of the program on the same file

\* ------------------------------------------------------------ u16 arithmetic
RECURSIVE BitAnd(_, _)
BitAnd(a, b) ==
    IF a = 0 \/ b = 0 THEN 0
    ELSE (a % 2) * (b % 2) + 2 * BitAnd(a \div 2, b \div 2)

RECURSIVE BitOr(_, _)
BitOr(a, b) ==
    IF a = 0 THEN b
    ELSE IF b = 0 THEN a
    ELSE (IF a % 2 = 1 \/ b % 2 = 1 THEN 1 ELSE 0) + 2 * BitOr(a \div 2, b \div 2)

BitNot16(a) == 65535 - a

\* ------------------------------------------------------------------ buffers
None == -1

\* config_buffer.get(i): the byte at offset i, or None outside the buffer
Get(buf, i) == IF i >= 0 /\ i < Len(buf) THEN buf[i + 1] ELSE None

\* --------------------------------------------------------------- parse_args
Options == {"--enable-l0s", "--disable-l0s", "--enable-l1", "--disable-l1"}

\* arg.starts_with("--") on the tokens of the model
StartsWithDashDash(arg) == arg \in Options \cup {"--verbose"}

Tokens == Options \cup {"--verbose", "cfg"}

\* the four option arms of the loop: the new (flags, mask)
ApplyOptionSwapped(arg, f, m) ==
    CASE arg = "--enable-l0s" ->
           [flags |-> BitOr(f, PCI_EXP_LNKCTL_ASPM_L0S),
            mask |-> BitOr(m, PCI_EXP_LNKCTL_ASPM_L0S)]
      [] arg = "--disable-l0s" ->
           [flags |-> BitAnd(f, BitNot16(PCI_EXP_LNKCTL_ASPM_L0S)),
            mask |-> BitOr(m, PCI_EXP_LNKCTL_ASPM_L0S)]
      [] arg = "--enable-l1" ->
           [flags |-> BitOr(f, PCI_EXP_LNKCTL_ASPM_L1),
            mask |-> BitOr(m, PCI_EXP_LNKCTL_ASPM_L1)]
      [] OTHER ->
           [flags |-> BitAnd(f, BitNot16(PCI_EXP_LNKCTL_ASPM_L0S)),
            mask |-> BitOr(m, PCI_EXP_LNKCTL_ASPM_L1)]

ApplyOption(arg, f, m) ==
    CASE arg = "--enable-l0s" ->
           [flags |-> BitOr(f, PCI_EXP_LNKCTL_ASPM_L0S),
            mask |-> BitOr(m, PCI_EXP_LNKCTL_ASPM_L0S)]
      [] arg = "--disable-l0s" ->
           [flags |-> BitAnd(f, BitNot16(PCI_EXP_LNKCTL_ASPM_L0S)),
            mask |-> BitOr(m, PCI_EXP_LNKCTL_ASPM_L0S)]
      [] arg = "--enable-l1" ->
           [flags |-> BitOr(f, PCI_EXP_LNKCTL_ASPM_L1),
            mask |-> BitOr(m, PCI_EXP_LNKCTL_ASPM_L1)]
      [] OTHER ->
           [flags |-> BitAnd(f, BitNot16(PCI_EXP_LNKCTL_ASPM_L1)),
            mask |-> BitOr(m, PCI_EXP_LNKCTL_ASPM_L1)]

\* ------------------------------------------------------ find_pci_capability
\* line 23: a non-zero next pointer that does not clear the 2-byte header
NextPointerInvalidStrict(next, p) == next < p + 2

NextPointerInvalid(next, p) == next # 0 /\ next < p + 2

\* lines 29-31: the matching structure overruns its successor or the buffer
LengthOverflowNoEnd(buf, p, next, tlen) == next >= p /\ tlen > next - p

LengthOverflow(buf, p, next, tlen) ==
    \/ (next >= p /\ tlen > next - p)
    \/ tlen > Len(buf) - p

\* line 40: follow the next pointer
AdvanceReversed(next, p) == next < p

Advance(next, p) == next > p

Outcome(kind, p) == [kind |-> kind, pointer |-> p]

\* one iteration of the loop at capability_pointer p (lines 20-44)
IterationMatchFirst(buf, p, tid, tlen) ==
    LET id == Get(buf, p)
        next == Get(buf, p + 1)
    IN  IF id = None THEN Outcome("OutOfBounds", p)
        ELSE IF next = None THEN Outcome("OutOfBounds", p)
        ELSE IF id = tid THEN
            IF LengthOverflow(buf, p, next, tlen)
            THEN Outcome("LengthOverflow", p)
            ELSE Outcome("Found", p)
        ELSE IF NextPointerInvalid(next, p) THEN Outcome("MalformedList", p)
        ELSE IF Advance(next, p) THEN Outcome("Continue", next)
        ELSE Outcome("NotFound", p)

Iteration(buf, p, tid, tlen) ==
    LET id == Get(buf, p)
        next == Get(buf, p + 1)
    IN  IF id = None THEN Outcome("OutOfBounds", p)
        ELSE IF next = None THEN Outcome("OutOfBounds", p)
        ELSE IF NextPointerInvalid(next, p) THEN Outcome("MalformedList", p)
        ELSE IF id = tid THEN
            IF LengthOverflow(buf, p, next, tlen)
            THEN Outcome("LengthOverflow", p)
            ELSE Outcome("Found", p)
        ELSE IF Advance(next, p) THEN Outcome("Continue", next)
        ELSE Outcome("NotFound", p)

\* ------------------------------------------------ find_pci_exp_link_control
LinkControlStart(cap_start) == cap_start + PCI_EXP_LNKCTL

\* --------------------------------------------------------------------- main
\* lines 140-141: the little-endian u16 at the range
LinkControlOldValue(buf, start) == buf[start + 2] * 256 + buf[start + 1]

\* line 142
LinkControlNewValueOrOnly(old, m, f) == BitOr(old, f)

LinkControlNewValueXor(old, m, f) == old + f - 2 * BitAnd(old, f)

LinkControlNewValue(old, m, f) == BitOr(BitAnd(old, BitNot16(m)), f)

\* line 144
NeedsWriteAlways(new, old) == TRUE

NeedsWrite(new, old) == new # old

\* lines 145-148
LinkControlNewBuffer(new) == << new % 256, (new \div 256) % 256 >>

\* write_all_at(bytes, off) of which the first n bytes reach the file
WriteAt(f, bytes, off, n) ==
    [i \in 1..Len(f) |->
        IF i - 1 >= off /\ i - 1 < off + n THEN bytes[i - off] ELSE f[i]]

\* ------------------------------------------------------------------- inputs
Zero(n) == [i \in 1..n |-> 0]

Poke(buf, off, val) == IF off < Len(buf) THEN [buf EXCEPT ![off + 1] = val] ELSE buf

RECURSIVE SeqsUpTo(_, _)
SeqsUpTo(S, n) ==
    IF n = 0 THEN {<< >>}
    ELSE LET shorter == SeqsUpTo(S, n - 1)
         IN  shorter \cup {Append(s, t) : s \in {x \in shorter : Len(x) = n - 1}, t \in S}

AllArgv == SeqsUpTo(Tokens, MaxArgs)

DefaultArgv == << "--enable-l0s", "cfg" >>

Lens == {48, 65, 139, 140, 256}
Heads == {0, 64, 80}
Ids == {5, PCI_CAP_ID_EXP}
Next0 == {0, 1, 64}
Next40 == {0, 64, 65, 80, 124, 255}
Next50 == {0, 64, 240, 255}

\* configuration spaces with up to four capability entries, at 0x00, 0x40,
\* 0x50 and 0xff
AllFiles ==
    { Poke(Poke(Poke(Poke(Poke(Poke(Poke(Poke(Zero(n),
          0, i0), 1, n0), 64, i1), 65, n1), 80, i2), 81, n2), 255, i3),
          PCI_CAPABILITY_LIST, h) :
        n \in Lens, h \in Heads,
        i0 \in Ids, n0 \in Next0, i1 \in Ids, n1 \in Next40, i2 \in Ids, n2 \in Next50,
        i3 \in Ids }

\* a well-formed space (0x40: id 5 -> 0x50: PCI Express) with Link Control = v
PatchFile(v) ==
    Poke(Poke(Poke(Poke(Poke(Poke(Zero(140),
        PCI_CAPABILITY_LIST, 64), 64, 5), 65, 80), 80, PCI_CAP_ID_EXP),
        80 + PCI_EXP_LNKCTL, v % 256), 80 + PCI_EXP_LNKCTL + 1, v \div 256)

PatchFiles == { PatchFile(v) : v \in {0, 3, 321, 322} }

\* -------------------------------------------------------------------- state
VARIABLES
    argv,                \* the command line after the program name
    file,                \* the backing resource at args.path
    pc,                  \* position of main
    args,                \* the std::env::args() iterator: what is left of argv
    flags, mask, path,   \* parse_args locals, then the Args struct
    config_buffer,       \* main's Vec<u8>
    capability_pointer,  \* find_pci_capability's loop variable
    result,              \* the exit taken by find_pci_capability
    link_control_range,  \* start of the range find_pci_exp_link_control returns
    exit_code,           \* the process exit code, None while running
    run,                 \* index of the current invocation
    file0,               \* the file as the current invocation found it
    writes,              \* write_all_at calls of the current invocation
    visited,             \* offsets the current traversal has read an entry at
    prev_exit,           \* exit code of the previous invocation, None in the first
    prev_writes          \* write_all_at calls of the previous invocation

vars == << argv, file, pc, args, flags, mask, path, config_buffer,
           capability_pointer, result, link_control_range, exit_code,
           run, file0, writes, visited, prev_exit, prev_writes >>

Init ==
    /\ \/ (argv \in AllArgv /\ file \in PatchFiles)
       \/ (argv = DefaultArgv /\ file \in AllFiles)
    /\ pc = "parse_args"
    /\ args = argv
    /\ flags = 0
    /\ mask = 0
    /\ path = << >>
    /\ config_buffer = << >>
    /\ capability_pointer = None
    /\ result = "None"
    /\ link_control_range = None
    /\ exit_code = None
    /\ run = 1
    /\ file0 = file
    /\ writes = 0
    /\ visited = {}
    /\ prev_exit = None
    /\ prev_writes = 0

Exit(code) == pc' = "done" /\ exit_code' = code

\* lines 72-98: one iteration of the argument loop
ParseArg ==
    /\ pc = "parse_args"
    /\ args # << >>
    /\ LET arg == Head(args) IN
        /\ args' = Tail(args)
        /\ IF arg \in Options THEN
                /\ flags' = ApplyOption(arg, flags, mask).flags
                /\ mask' = ApplyOption(arg, flags, mask).mask
                /\ UNCHANGED << path, pc, exit_code >>
           ELSE IF StartsWithDashDash(arg) THEN
                /\ Exit(1)
                /\ UNCHANGED << flags, mask, path >>
           ELSE IF path = << >> THEN
                /\ path' = << arg >>
                /\ UNCHANGED << flags, mask, pc, exit_code >>
           ELSE /\ Exit(1)
                /\ UNCHANGED << flags, mask, path >>
    /\ UNCHANGED << argv, file, config_buffer, capability_pointer, result,
                    link_control_range, run, file0, writes, visited, prev_exit, prev_writes >>

\* lines 73-75, 100-115: the arguments are exhausted
ParseEnd ==
    /\ pc = "parse_args"
    /\ args = << >>
    /\ IF path = << >> THEN Exit(1) ELSE (pc' = "open" /\ UNCHANGED exit_code)
    /\ UNCHANGED << argv, file, args, flags, mask, path, config_buffer,
                    capability_pointer, result, link_control_range,
                    run, file0, writes, visited, prev_exit, prev_writes >>

\* lines 117-127: OpenOptions::open succeeds or fails
Open ==
    /\ pc = "open"
    /\ \E ok \in BOOLEAN :
        IF ok THEN (pc' = "read" /\ UNCHANGED exit_code) ELSE Exit(1)
    /\ UNCHANGED << argv, file, args, flags, mask, path, config_buffer,
                    capability_pointer, result, link_control_range,
                    run, file0, writes, visited, prev_exit, prev_writes >>

\* lines 129-134: read_to_end succeeds with the whole file, or fails
Read ==
    /\ pc = "read"
    /\ \E ok \in BOOLEAN :
        IF ok THEN /\ config_buffer' = file
                   /\ pc' = "find"
                   /\ UNCHANGED exit_code
        ELSE /\ Exit(1)
             /\ UNCHANGED config_buffer
    /\ UNCHANGED << argv, file, args, flags, mask, path,
                    capability_pointer, result, link_control_range,
                    run, file0, writes, visited, prev_exit, prev_writes >>

\* line 17 (and 49-52, 136-138 when the read fails)
FindHead ==
    /\ pc = "find"
    /\ LET head == Get(config_buffer, PCI_CAPABILITY_LIST) IN
        IF head = None THEN
            /\ result' = "OutOfBounds"
            /\ Exit(1)
            /\ UNCHANGED capability_pointer
        ELSE
            /\ capability_pointer' = head
            /\ pc' = "loop"
            /\ UNCHANGED << result, exit_code >>
    /\ UNCHANGED << argv, file, args, flags, mask, path, config_buffer,
                    link_control_range, run, file0, writes, visited, prev_exit, prev_writes >>

\* lines 19-45: one iteration; on an exit, lines 49-54 and 136-138 follow
FindLoop ==
    /\ pc = "loop"
    /\ LET o == Iteration(config_buffer, capability_pointer,
                          PCI_CAP_ID_EXP, PCI_CAP_ID_EXP_LEN) IN
        CASE o.kind = "Continue" ->
                /\ capability_pointer' = o.pointer
                /\ UNCHANGED << pc, result, link_control_range, exit_code >>
          [] o.kind = "Found" ->
                /\ result' = "Found"
                /\ link_control_range' = LinkControlStart(o.pointer)
                /\ pc' = "patch"
                /\ UNCHANGED << capability_pointer, exit_code >>
          [] OTHER ->
                /\ result' = o.kind
                /\ Exit(1)
                /\ UNCHANGED << capability_pointer, link_control_range >>
    /\ visited' = visited \cup {capability_pointer}
    /\ UNCHANGED << argv, file, args, flags, mask, path, config_buffer,
                    run, file0, writes, prev_exit, prev_writes >>

\* lines 140-158: read the old value, compute the new one, write it if it
\* differs.  Indexing outside config_buffer panics (exit code 101).  The
\* positioned write stores n of its 2 bytes and fails unless n = 2.
Patch ==
    /\ pc = "patch"
    /\ IF link_control_range + 1 >= Len(config_buffer) THEN
            /\ Exit(101)
            /\ UNCHANGED << file, writes >>
       ELSE LET old == LinkControlOldValue(config_buffer, link_control_range)
                new == LinkControlNewValue(old, mask, flags)
            IN  IF NeedsWrite(new, old) THEN
                    \E n \in 0..2 :
                        /\ file' = WriteAt(file, LinkControlNewBuffer(new),
                                           link_control_range, n)
                        /\ writes' = writes + 1
                        /\ Exit(IF n = 2 THEN 0 ELSE 1)
                ELSE /\ Exit(0)
                     /\ UNCHANGED << file, writes >>
    /\ UNCHANGED << argv, args, flags, mask, path, config_buffer,
                    capability_pointer, result, link_control_range,
                    run, file0, visited, prev_exit, prev_writes >>

\* the same command line is run again on the file the last run left
Rerun ==
    /\ pc = "done"
    /\ run < MaxRuns
    /\ run' = run + 1
    /\ prev_exit' = exit_code
    /\ prev_writes' = writes
    /\ visited' = {}
    /\ file0' = file
    /\ pc' = "parse_args"
    /\ args' = argv
    /\ flags' = 0
    /\ mask' = 0
    /\ path' = << >>
    /\ config_buffer' = << >>
    /\ capability_pointer' = None
    /\ result' = "None"
    /\ link_control_range' = None
    /\ exit_code' = None
    /\ writes' = 0
    /\ UNCHANGED << argv, file >>

Next ==
    \/ ParseArg
    \/ ParseEnd
    \/ Open
    \/ Read
    \/ FindHead
    \/ FindLoop
    \/ Patch
    \/ Rerun

Spec == Init /\ [][Next]_vars

\* main is one sequential thread: it keeps taking steps until it exits
FairSpec == Spec /\ WF_vars(Next)

\* ----------------------------------------------------- vocabulary of the claims
EntryId(buf, p) == buf[p + 1]
EntryNext(buf, p) == buf[p + 2]

\* the entries the list links: from the head pointer along next pointers that
\* clear the 2-byte header, as long as both header bytes are inside the buffer
RECURSIVE ChainFrom(_, _)
ChainFrom(buf, p) ==
    IF p + 1 >= Len(buf) THEN {}
    ELSE {p} \cup (IF EntryNext(buf, p) >= p + 2
                   THEN ChainFrom(buf, EntryNext(buf, p)) ELSE {})

Chain(buf) ==
    IF Len(buf) <= PCI_CAPABILITY_LIST THEN {}
    ELSE ChainFrom(buf, buf[PCI_CAPABILITY_LIST + 1])

\* offset 0x34 and every linked header are in bounds, every next pointer is 0
\* or moves forward past the header
InBoundsForwardChain(buf) ==
    /\ Len(buf) > PCI_CAPABILITY_LIST
    /\ buf[PCI_CAPABILITY_LIST + 1] + 1 < Len(buf)
    /\ \A p \in Chain(buf) :
          \/ EntryNext(buf, p) = 0
          \/ (EntryNext(buf, p) >= p + 2 /\ EntryNext(buf, p) + 1 < Len(buf))

ExpressEntries(buf) == {p \in Chain(buf) : EntryId(buf, p) = PCI_CAP_ID_EXP}

\* n bytes of room at p: to the next entry when there is one, and to the end
HasRoom(buf, p, n) ==
    /\ (EntryNext(buf, p) # 0 => EntryNext(buf, p) - p >= n)
    /\ Len(buf) - p >= n

\* find_pci_capability has returned in the current invocation
FindDone == result # "None"

\* the u16 stored little-endian at offset r of buf
RegisterAt(buf, r) == buf[r + 2] * 256 + buf[r + 1]

\* the arguments parse_args has consumed so far
Consumed == SubSeq(argv, 1, Len(argv) - Len(args))

EnableOption(bit) == IF bit = PCI_EXP_LNKCTL_ASPM_L0S THEN "--enable-l0s" ELSE "--enable-l1"
DisableOption(bit) == IF bit = PCI_EXP_LNKCTL_ASPM_L0S THEN "--disable-l0s" ELSE "--disable-l1"

\* positions of the consumed options that name the bit
OptionPositions(bit) ==
    {i \in 1..Len(Consumed) : Consumed[i] \in {EnableOption(bit), DisableOption(bit)}}

LastPosition(S) == CHOOSE i \in S : \A j \in S : j <= i

\* ---------------------------------------------------------------------- C1
\* C1: whenever the list is an in-bounds forward-only chain whose first
\* PCI Express entry (id 0x10) sits at c with 0x3c bytes of room, the
\* resolver succeeds with the range starting at c + 0x10.
C1_ResolveFindsExpress ==
    \A c \in ExpressEntries(config_buffer) :
        ( /\ FindDone
          /\ InBoundsForwardChain(config_buffer)
          /\ \A d \in ExpressEntries(config_buffer) : c <= d
          /\ HasRoom(config_buffer, c, PCI_CAP_ID_EXP_LEN) )
        => (result = "Found" /\ link_control_range = c + PCI_EXP_LNKCTL)

\* ---------------------------------------------------------------------- C2
\* C2 (as claimed): a buffer whose list has no id-0x10 entry always ends the
\* search with the not-found outcome.
C2_AlwaysNotFound ==
    (FindDone /\ ExpressEntries(config_buffer) = {}) => result = "NotFound"

\* C2 (amended): without an id-0x10 entry in the list the search never
\* succeeds and never reports a length overflow; it reports not-found when
\* the list is in bounds and well formed.
C2_NotFoundWhenWellFormed ==
    (FindDone /\ ExpressEntries(config_buffer) = {}) =>
        /\ result \notin {"Found", "LengthOverflow"}
        /\ link_control_range = None
        /\ (InBoundsForwardChain(config_buffer) => result = "NotFound")

C2_Witness ==
    /\ result = "NotFound"
    /\ ExpressEntries(config_buffer) = {}
    /\ InBoundsForwardChain(config_buffer)
    /\ Cardinality(visited) >= 2

\* ---------------------------------------------------------------------- C3
\* C3: an iteration at an entry whose next pointer n satisfies 0 < n < p + 2
\* ends the traversal there with the malformed-list outcome: the pointer does
\* not move and no range is returned, whatever the ids are.
C3_MalformedIsFatal ==
    [][ ( /\ pc = "loop"
          /\ Get(config_buffer, capability_pointer + 1) # None
          /\ Get(config_buffer, capability_pointer + 1) > 0
          /\ Get(config_buffer, capability_pointer + 1) < capability_pointer + 2 )
        => ( /\ result' = "MalformedList"
             /\ capability_pointer' = capability_pointer
             /\ link_control_range' = None
             /\ pc' = "done"
             /\ exit_code' = 1 ) ]_vars

C3_Witness ==
    /\ result = "MalformedList"
    /\ Get(config_buffer, capability_pointer) = PCI_CAP_ID_EXP

\* ---------------------------------------------------------------------- C4
\* the entry the traversal stopped at has id 0x10 and less than 0x3c bytes
\* of room, to a forward next pointer or to the end of the buffer
ShortExpressEntry ==
    /\ FindDone
    /\ capability_pointer # None
    /\ Get(config_buffer, capability_pointer) = PCI_CAP_ID_EXP
    /\ \/ /\ Get(config_buffer, capability_pointer + 1) > capability_pointer
          /\ Get(config_buffer, capability_pointer + 1) - capability_pointer
                < PCI_CAP_ID_EXP_LEN
       \/ Len(config_buffer) - capability_pointer < PCI_CAP_ID_EXP_LEN

\* C4 (as claimed): an id-0x10 entry with less than 0x3c bytes of room always
\* ends the traversal with the length-overflow outcome.
C4_ShortRoomIsOverflow == ShortExpressEntry => result = "LengthOverflow"

\* C4 (amended): such an entry never yields a range; the outcome is
\* length-overflow when its header is in bounds and its next pointer is 0 or
\* at least p + 2, and out-of-bounds or malformed-list otherwise.  Every
\* returned range [p, p + 0x3c) lies inside the buffer and ends at or before
\* a non-zero next pointer, so the 2-byte read at p + 0x10 is in bounds.
C4_NoRangeWithoutRoom ==
    /\ ShortExpressEntry =>
          /\ result \in {"LengthOverflow", "MalformedList", "OutOfBounds"}
          /\ link_control_range = None
          /\ exit_code \notin {0, 101}
          /\ ( ( /\ Get(config_buffer, capability_pointer + 1) # None
                 /\ \/ Get(config_buffer, capability_pointer + 1) = 0
                    \/ Get(config_buffer, capability_pointer + 1)
                          >= capability_pointer + 2 )
               => result = "LengthOverflow" )
    /\ result = "Found" =>
          /\ capability_pointer + PCI_CAP_ID_EXP_LEN <= Len(config_buffer)
          /\ ( EntryNext(config_buffer, capability_pointer) # 0 =>
                 capability_pointer + PCI_CAP_ID_EXP_LEN
                    <= EntryNext(config_buffer, capability_pointer) )
          /\ link_control_range = capability_pointer + PCI_EXP_LNKCTL
          /\ link_control_range + 2 <= Len(config_buffer)
          /\ exit_code # 101

C4_Witness ==
    /\ result = "LengthOverflow"
    /\ capability_pointer > 0
    /\ Get(config_buffer, capability_pointer + 1) = 0
    /\ Len(config_buffer) - capability_pointer = PCI_CAP_ID_EXP_LEN - 1

\* ---------------------------------------------------------------------- C5
\* the value main computes from the register the invocation found
ExpectedNew ==
    LET old == RegisterAt(file0, link_control_range)
    IN  BitOr(BitAnd(old, BitNot16(mask)), flags)

\* C5: a run writes at most once; it writes exactly when the register was
\* located and the new value differs from the old one; a failed parse, open,
\* read or search writes nothing and exits 1; an unchanged value writes
\* nothing and exits 0.
C5_WriteOnlyWhenChanged ==
    /\ writes <= 1
    /\ (writes = 0 => file = file0)
    /\ (pc = "done" /\ result # "Found") =>
          (writes = 0 /\ exit_code = 1)
    /\ (pc = "done" /\ result = "Found") =>
          /\ (writes = 1 <=> ExpectedNew # RegisterAt(file0, link_control_range))
          /\ (writes = 0 => exit_code = 0)

C5_Witness ==
    /\ pc = "done"
    /\ result = "Found"
    /\ mask = 3
    /\ flags = 3
    /\ RegisterAt(file0, link_control_range) = 3
    /\ writes = 0
    /\ exit_code = 0

\* ---------------------------------------------------------------------- C6
\* C6: after a successful write the register, stored low byte first, keeps
\* the old value on the bits outside mask and holds flags on the bits inside
\* mask; no byte outside the 2-byte range ever changes.
C6_OnlyMaskedBitsChange ==
    /\ Len(file) = Len(file0)
    /\ \A i \in 1..Len(file) :
          (link_control_range = None
             \/ i - 1 \notin {link_control_range, link_control_range + 1})
          => file[i] = file0[i]
    /\ (pc = "done" /\ writes = 1 /\ exit_code = 0) =>
          LET old == RegisterAt(file0, link_control_range)
              lo == file[link_control_range + 1]
              hi == file[link_control_range + 2]
              new == hi * 256 + lo
          IN  /\ BitAnd(new, BitNot16(mask)) = BitAnd(old, BitNot16(mask))
              /\ BitAnd(new, mask) = BitAnd(flags, mask)
              /\ lo = BitOr(BitAnd(old, BitNot16(mask)), BitAnd(flags, mask)) % 256
              /\ hi = BitOr(BitAnd(old, BitNot16(mask)), BitAnd(flags, mask)) \div 256

C6_Witness ==
    /\ pc = "done"
    /\ writes = 1
    /\ exit_code = 0
    /\ mask = 1
    /\ flags = 1
    /\ RegisterAt(file0, link_control_range) = 322
    /\ RegisterAt(file, link_control_range) = 323

\* ---------------------------------------------------------------------- C7
\* C7: run again after a successful run, the same command line finds the
\* value already in place: it writes nothing, leaves the file as it found
\* it, and exits 0 once the register is located.
C7_SecondRunIsNoOp ==
    (run >= 2 /\ prev_exit = 0) =>
        /\ writes = 0
        /\ file = file0
        /\ (pc = "done" /\ result = "Found") => exit_code = 0
        /\ pc = "patch" => ExpectedNew = RegisterAt(file0, link_control_range)

C7_Witness ==
    /\ run = 2
    /\ prev_exit = 0
    /\ prev_writes = 1
    /\ pc = "done"
    /\ result = "Found"
    /\ writes = 0
    /\ exit_code = 0

\* ---------------------------------------------------------------------- C8
\* C8: for each ASPM bit, the bit is in mask exactly when an option for it
\* has been consumed, and in flags exactly when the last such option was the
\* --enable one; flags has no bit outside mask.
C8_LastOptionWins ==
    /\ BitAnd(flags, BitNot16(mask)) = 0
    /\ BitAnd(mask, BitNot16(3)) = 0
    /\ \A bit \in {PCI_EXP_LNKCTL_ASPM_L0S, PCI_EXP_LNKCTL_ASPM_L1} :
          /\ BitAnd(mask, bit) # 0 <=> OptionPositions(bit) # {}
          /\ BitAnd(flags, bit) # 0 <=>
                /\ OptionPositions(bit) # {}
                /\ Consumed[LastPosition(OptionPositions(bit))] = EnableOption(bit)

C8_Witness ==
    /\ pc = "open"
    /\ Consumed = << "--enable-l1", "--disable-l1", "cfg" >>
    /\ mask = 2
    /\ flags = 0

\* ---------------------------------------------------------------------- C9
\* C9: a matching entry whose next pointer is 0 is only held to the end of
\* the buffer: with 0x3c bytes up to the end it is returned, at any offset.
C9_EndOfListOnlyBufferEnd ==
    ( /\ FindDone
      /\ capability_pointer # None
      /\ Get(config_buffer, capability_pointer) = PCI_CAP_ID_EXP
      /\ Get(config_buffer, capability_pointer + 1) = 0
      /\ PCI_CAP_ID_EXP_LEN <= Len(config_buffer) - capability_pointer )
    => (result = "Found" /\ link_control_range = capability_pointer + PCI_EXP_LNKCTL)

\* --------------------------------------------------------------------- C10
\* C10: the traversal ends: the pointer strictly increases on every
\* iteration that continues, no offset is read as an entry twice, at most
\* 256 iterations run, and the loop is always left.
C10_TraversalTerminates ==
    /\ [][ (pc = "loop" /\ pc' = "loop") =>
              (capability_pointer' > capability_pointer) ]_vars
    /\ [](pc = "loop" =>
              /\ capability_pointer \notin visited
              /\ capability_pointer \in 0..255
              /\ \A v \in visited : v < capability_pointer)
    /\ [](Cardinality(visited) <= 256)
    /\ [](pc = "loop" => <>(pc # "loop"))

C10_Witness ==
    /\ result = "MalformedList"
    /\ Cardinality(visited) >= 2
    /\ Get(config_buffer, capability_pointer + 1) \in visited
    /\ Get(config_buffer, capability_pointer + 1) # capability_pointer

====
